---- MODULE Spec2Model ----
(***************************************************************************)
(* A model of the SOCKS5 client session of socks5_scratch:                 *)
(* Config, Socks5Stream::use_stream, Socks5Stream::request with its two    *)
(* halves request_header and read_request_reply, and ReplyError::from_u8.  *)
(* The channel (socket) is the environment: it accepts all or part of a    *)
(* write or fails it, flushes or fails, and delivers the bytes the proxy   *)
(* has sent.  A Rust panic (unreachable!, todo!, an out-of-range slice) is *)
(* a control state of its own, "panicked", distinct from a returned Err.   *)
(***************************************************************************)
EXTENDS Integers, Sequences, FiniteSets, TLC

VARIABLES
    config,       \* Config {connect_timeout, skip_auth}
    methods,      \* the candidate method list built by use_stream
    target_addr,  \* Socks5Stream.target_addr (Option<TargetAddr>)
    cmd,          \* the command of the request() in progress
    pc,           \* where the caller / the async fn stands
    calls,        \* number of request() calls made on the session
    offered,      \* the slices handed to socket.write, in order
    sent,         \* the bytes the channel accepted, in order
    ops,          \* the channel operations performed, in order
    call_start,   \* Len(ops) when the current request() began
    inbox,        \* bytes received from the proxy and not yet read
    proxy_sent,   \* everything the proxy has sent
    proxy_done,   \* the proxy has sent its bytes and closed its side
    nread,        \* number of bytes the client consumed from the channel
    read_start,   \* nread when the current request() began
    sent_start,   \* Len(sent) when the current request() began
    args,         \* the arguments of the connect_raw() in progress
    hdr,          \* the bytes obtained by the last read_exact of 4
    result        \* what the last request() gave its caller

vars == <<config, methods, target_addr, cmd, pc, calls, offered, sent, ops,
          call_start, inbox, proxy_sent, proxy_done, nread, read_start,
          sent_start, args, hdr, result>>

(***************************************************************************)
(* Bounds of the model.                                                    *)
(***************************************************************************)
MaxCalls == 1

(***************************************************************************)
(* Wire constants.                                                         *)
(***************************************************************************)
SOCKS5_VERSION == 5
SOCKS5_CMD_TCP_CONNECT == 1
SOCKS5_CMD_TCP_BIND == 2
SOCKS5_CMD_UDP_ASSOCIATE == 3
SOCKS5_REPLY_SUCCEEDED == 0
U8_MAX == 255

MAX_ADDR_LEN_one_domain == U8_MAX + 1

MAX_ADDR_LEN == 260

Socks5Command == {"TCPConnect", "TCPBind", "UDPAssociate"}

as_u8(c) ==
    CASE c = "TCPConnect" -> SOCKS5_CMD_TCP_CONNECT
      [] c = "TCPBind" -> SOCKS5_CMD_TCP_BIND
      [] c = "UDPAssociate" -> SOCKS5_CMD_UDP_ASSOCIATE

(***************************************************************************)
(* Values: Option<u64>, TargetAddr, SocksError, Result.                    *)
(***************************************************************************)
NoTimeout == -1

Rep(b, n) == [i \in 1..n |-> b]

NoAddr == [type |-> "None", ip |-> <<>>, name |-> <<>>, port |-> 0]
IpV4(ip, port) == [type |-> "V4", ip |-> ip, name |-> <<>>, port |-> port]
IpV6(ip, port) == [type |-> "V6", ip |-> ip, name |-> <<>>, port |-> port]
Domain(name, port) == [type |-> "Domain", ip |-> <<>>, name |-> name, port |-> port]

NoErr == [variant |-> "None", msg |-> "", arg |-> 0]
ErrOther(m) == [variant |-> "Other", msg |-> m, arg |-> 0]
ErrReply(v) == [variant |-> "ReplyError", msg |-> v, arg |-> 0]
ErrExceededMaxDomainLen(n) == [variant |-> "ExceededMaxDomainLen", msg |-> "", arg |-> n]
ErrUnsupportedSocksVersion(v) == [variant |-> "UnsupportedSocksVersion", msg |-> "", arg |-> v]

ErrIo(k) == [variant |-> "Io", msg |-> k, arg |-> 0]

NoResult == [kind |-> "None", err |-> NoErr, addr |-> NoAddr]
Ok(a) == [kind |-> "Ok", err |-> NoErr, addr |-> a]
Err(e) == [kind |-> "Err", err |-> e, addr |-> NoAddr]
Panic(m) == [kind |-> "Panic", err |-> ErrOther(m), addr |-> NoAddr]

(***************************************************************************)
(* request_header, the encoding half: lines 184-234 of client.rs.          *)
(* The packet is the fixed buffer [0u8; MAX_ADDR_LEN + 3]; Rust index i is *)
(* position i + 1 here.  Every slice operation checks its range as Rust    *)
(* does, and a failed check is a panic.                                    *)
(***************************************************************************)
to_le_bytes(port) == <<port % 256, (port \div 256) % 256>>

to_be_bytes(port) == <<(port \div 256) % 256, port % 256>>

ZeroPacket == [buf |-> Rep(0, MAX_ADDR_LEN + 3), panicked |-> FALSE]

\* packet[lo..hi].copy_from_slice(src)
copy_from_slice(p, lo, hi, src) ==
    IF p.panicked \/ lo > hi \/ hi > Len(p.buf) \/ hi - lo # Len(src)
    THEN [buf |-> p.buf, panicked |-> TRUE]
    ELSE [buf |-> [i \in 1..Len(p.buf) |->
                      IF i > lo /\ i <= hi THEN src[i - lo] ELSE p.buf[i]],
          panicked |-> FALSE]

\* packet[idx] = b
set_byte(p, idx, b) ==
    IF p.panicked \/ idx >= Len(p.buf)
    THEN [buf |-> p.buf, panicked |-> TRUE]
    ELSE [buf |-> [p.buf EXCEPT ![idx + 1] = b], panicked |-> FALSE]

\* &packet[..padding]
slice_to(p, padding) ==
    IF p.panicked \/ padding > Len(p.buf)
    THEN [kind |-> "Panic", err |-> ErrOther("index out of range"), slice |-> <<>>]
    ELSE [kind |-> "Write", err |-> NoErr, slice |-> SubSeq(p.buf, 1, padding)]

EncodeErr(e) == [kind |-> "Err", err |-> e, slice |-> <<>>]

domain_too_long_lax(n) == n > MAX_ADDR_LEN

\* domain.len() > u8::MAX as usize
domain_too_long(n) == n > U8_MAX

domain_len_byte_with_port(n) == (n + 2) % 256

\* domain.len() as u8
domain_len_byte(n) == n % 256

\* packet[..3].copy_from_slice(&[SOCKS5_VERSION, cmd.as_u8(), 0x00])
packet_head(c) == copy_from_slice(ZeroPacket, 0, 3, <<SOCKS5_VERSION, as_u8(c), 0>>)

encode_zeros_no_port(c) ==
    slice_to(copy_from_slice(set_byte(packet_head(c), 3, 1), 4, 8, <<0, 0, 0, 0>>), 8)

encode_zeros(c) ==
    slice_to(copy_from_slice(
                 copy_from_slice(set_byte(packet_head(c), 3, 1), 4, 8, <<0, 0, 0, 0>>),
                 8, 10, <<0, 0>>), 10)

encode_v4(c, ta) ==
    slice_to(copy_from_slice(
                 copy_from_slice(set_byte(packet_head(c), 3, 1), 4, 8, ta.ip),
                 8, 10, to_be_bytes(ta.port)), 10)

encode_domain(c, ta) ==
    LET n == Len(ta.name)
        padding == 5 + n + 2
    IN  IF domain_too_long(n)
        THEN EncodeErr(ErrExceededMaxDomainLen(n))
        ELSE slice_to(copy_from_slice(
                          copy_from_slice(
                              set_byte(set_byte(packet_head(c), 3, 3), 4,
                                       domain_len_byte(n)),
                              5, 5 + n, ta.name),
                          5 + n, padding, to_be_bytes(ta.port)), padding)

encode_v6_as_frame(c, ta) ==
    slice_to(copy_from_slice(
                 copy_from_slice(set_byte(packet_head(c), 3, 4), 4, 20, ta.ip),
                 20, 22, to_be_bytes(ta.port)), 22)

\* TargetAddr::Ip(SocketAddr::V6(addr)) => Err("unsupported ipv6")
encode_v6(c, ta) == EncodeErr(ErrOther("unsupported ipv6"))

request_header(c, ta) ==
    CASE ta.type = "None" ->
            IF c = "UDPAssociate"
            THEN encode_zeros(c)
            ELSE EncodeErr(ErrOther("target addr should be present"))
      [] ta.type = "V4" -> encode_v4(c, ta)
      [] ta.type = "V6" -> encode_v6(c, ta)
      [] ta.type = "Domain" -> encode_domain(c, ta)

(***************************************************************************)
(* ReplyError::from_u8 and read_request_reply, the decoding half.          *)
(***************************************************************************)
\* lib.rs 101-106: only SOCKS5_REPLY_SUCCEEDED has an arm; the rest is
\* unreachable!(), a panic.
from_u8(code) ==
    IF code = SOCKS5_REPLY_SUCCEEDED
    THEN [panic |-> FALSE, variant |-> "Succeeded"]
    ELSE [panic |-> TRUE, variant |-> "ReplyError code unsupported."]

reply_error(code) ==
    IF from_u8(code).panic
    THEN Panic(from_u8(code).variant)
    ELSE Err(ErrReply(from_u8(code).variant))

decode_reply_code_first(h) ==
    IF h[2] # SOCKS5_REPLY_SUCCEEDED
    THEN reply_error(h[2])
    ELSE IF h[1] # SOCKS5_VERSION
         THEN Err(ErrUnsupportedSocksVersion(h[1]))
         ELSE Panic("not yet implemented")

\* client.rs 263-270, on the 4 bytes [version, reply, rsv, address_type]
decode_reply(h) ==
    IF h[1] # SOCKS5_VERSION
    THEN Err(ErrUnsupportedSocksVersion(h[1]))
    ELSE IF h[2] # SOCKS5_REPLY_SUCCEEDED
         THEN reply_error(h[2])
         ELSE Panic("not yet implemented")

\* read_exact!(self.socket, [0u8; 4]): the first 4 bytes of what the channel
\* delivers, or an error when it ends before that.
read_exact4(avail) ==
    IF Len(avail) >= 4
    THEN [ok |-> TRUE, bytes |-> SubSeq(avail, 1, 4)]
    ELSE [ok |-> FALSE, bytes |-> avail]

read_request_reply(avail) ==
    IF read_exact4(avail).ok
    THEN decode_reply(read_exact4(avail).bytes)
    ELSE Err(ErrOther("Received malformed reply"))

(***************************************************************************)
(* use_stream: the candidate methods and the Handshake Lifecycle.          *)
(***************************************************************************)
AuthChoices == {"NoAuth", "Password"}

\* vec![AuthenticationMethod::None], then push(method) when auth is Some
candidate_methods(auth) ==
    IF auth # "NoAuth" THEN <<"None", auth>> ELSE <<"None">>

\* the wire code of a method (0x00 None, 0x02 Password)
method_code(m) == IF m = "None" THEN 0 ELSE 2

negotiation_frame(ms) ==
    <<SOCKS5_VERSION, Len(ms)>> \o [i \in 1..Len(ms) |-> method_code(ms[i])]

handshake_always(skip_auth, ms) == <<negotiation_frame(ms)>>

\* client.rs 138-144: the slices use_stream writes to the socket.  Both
\* branches only log; the calls that would negotiate are commented out.
handshake_writes(skip_auth, ms) == IF ~skip_auth THEN <<>> ELSE <<>>

RECURSIVE Flatten(_)
Flatten(ss) == IF ss = <<>> THEN <<>> ELSE Head(ss) \o Flatten(Tail(ss))

(***************************************************************************)
(* The inputs: targets and commands a caller passes, what the channel      *)
(* accepts of a write, and what a proxy may send.                          *)
(***************************************************************************)
PerduCom == <<112, 101, 114, 100, 117, 46, 99, 111, 109>>

DomainNames == {<<>>, PerduCom, Rep(97, 255), Rep(97, 256), Rep(97, 300)}

Targets ==
    {IpV4(<<93, 184, 216, 34>>, 443), IpV4(<<255, 254, 253, 252>>, 65535)}
    \cup {IpV6(Rep(0, 15) \o <<1>>, 443)}
    \cup {Domain(PerduCom, 80)}
    \cup {Domain(n, 443) : n \in DomainNames \ {PerduCom}}

\* socket.write(buf) gives Ok(n) for some n <= buf.len()
AcceptCounts(len) == {n \in {1, len} : n <= len}

BoundV4 == <<1, 0, 0, 0, 0, 0, 0>>

ReplyCodes == 0..9 \cup {255}

ReplyFrames ==
    {<<5, r, 0>> \o BoundV4 : r \in ReplyCodes}
    \cup {<<4, r, 0>> \o BoundV4 : r \in {0, 5, 9}}
    \cup {<<5, 0, 0, 1, 93, 184, 216, 34, 1, 187>>,
          <<5, 0, 7, 1, 10, 0, 0, 1, 4, 56>>,
          <<5, 0, 0, 3, 9>> \o PerduCom \o <<0, 80>>,
          <<5, 0, 0, 4>> \o Rep(0, 16) \o <<0, 80>>,
          <<0, 255, 0, 3, 1, 97, 0, 80>>}

MethodAnswers == {<<5, 0>>, <<5, 2>>, <<5, 255>>, <<4, 0>>}

ProxyStreams ==
    ReplyFrames
    \cup {<<>>, <<5, 0, 0>>, <<4, 0>>, <<5, 255>>}
    \cup {a \o <<5, 0, 0>> \o BoundV4 : a \in MethodAnswers}

(***************************************************************************)
(* tcp_connect and the arguments of connect_raw.                           *)
(***************************************************************************)
\* how TcpStream::connect(addr) ends: connected, or an io::ErrorKind
DialOutcomes ==
    {"Connected", "ConnectionRefused", "ConnectionAborted", "ConnectionReset",
     "NotConnected", "TimedOut", "PermissionDenied", "AddrNotAvailable"}

tcp_connect_general_failure(o) ==
    CASE o = "Connected" -> Ok(NoAddr)
      [] o = "ConnectionRefused" -> Err(ErrReply("ConnectionRefused"))
      [] o = "ConnectionAborted" -> Err(ErrReply("ConnectionNotAllowed"))
      [] o = "ConnectionReset" -> Err(ErrReply("ConnectionNotAllowed"))
      [] o = "NotConnected" -> Err(ErrReply("NetworkUnreachable"))
      [] OTHER -> Err(ErrReply("GeneralFailure"))

\* stream.rs 6-21
tcp_connect(o) ==
    CASE o = "Connected" -> Ok(NoAddr)
      [] o = "ConnectionRefused" -> Err(ErrReply("ConnectionRefused"))
      [] o = "ConnectionAborted" -> Err(ErrReply("ConnectionNotAllowed"))
      [] o = "ConnectionReset" -> Err(ErrReply("ConnectionNotAllowed"))
      [] o = "NotConnected" -> Err(ErrReply("NetworkUnreachable"))
      [] OTHER -> Err(ErrIo(o))

\* no connect_raw in progress; dial is how tcp_connect stands or ended
NoArgs ==
    [form |-> "None", ip |-> <<>>, name |-> <<>>, port |-> 0, auth |-> "NoAuth",
     dial |-> "None"]

Timeouts == {10}

\* socks_server.to_socket_addrs()?.next().context("unreachable")?
ResolveOutcomes == {"addr", "io", "empty"}

\* the (target_addr, target_port, auth) a caller passes: a numeric IPv4 or
\* IPv6 literal, a host name, or text that is no address
ConnectArgs ==
    {[form |-> t.type, ip |-> t.ip, name |-> t.name, port |-> t.port, auth |-> a,
      dial |-> "None"] :
        t \in {IpV4(<<93, 184, 216, 34>>, 443), IpV6(Rep(0, 15) \o <<1>>, 443),
                Domain(PerduCom, 80), Domain(Rep(97, 256), 443)},
        a \in AuthChoices}
    \cup {[form |-> "Invalid", ip |-> <<>>, name |-> <<>>, port |-> 80,
           auth |-> "NoAuth", dial |-> "None"]}

\* (host, port).to_target_addr(): a numeric literal gives Ip, any other
\* host gives Domain
to_target_addr(a) ==
    CASE a.form = "V4" -> Ok(IpV4(a.ip, a.port))
      [] a.form = "V6" -> Ok(IpV6(a.ip, a.port))
      [] a.form = "Domain" -> Ok(Domain(a.name, a.port))
      [] OTHER -> Err(ErrOther("Can't convert address to TargetAddr format"))

(***************************************************************************)
(* The state machine.                                                      *)
(***************************************************************************)
Init ==
    /\ config = [connect_timeout |-> NoTimeout, skip_auth |-> FALSE]
    /\ methods = <<>>
    /\ target_addr = NoAddr
    /\ cmd = "None"
    /\ pc = "config"
    /\ calls = 0
    /\ offered = <<>>
    /\ sent = <<>>
    /\ ops = <<>>
    /\ call_start = 0
    /\ inbox = <<>>
    /\ proxy_sent = <<>>
    /\ proxy_done = FALSE
    /\ nread = 0
    /\ read_start = 0
    /\ sent_start = 0
    /\ args = NoArgs
    /\ hdr = <<>>
    /\ result = NoResult

\* Config::set_skip_auth
SetSkipAuth ==
    /\ pc = "config"
    /\ \E v \in BOOLEAN : config' = [config EXCEPT !.skip_auth = v]
    /\ UNCHANGED <<methods, target_addr, cmd, pc, calls, offered, sent, ops,
                   call_start, inbox, proxy_sent, proxy_done, nread, hdr, result,
                   read_start, sent_start, args>>

\* Socks5Stream::use_stream(socket, auth, config)
UseStream ==
    /\ pc = "config"
    /\ \E auth \in AuthChoices :
          LET ms == candidate_methods(auth)
              ws == handshake_writes(config.skip_auth, ms)
          IN  /\ methods' = ms
              /\ offered' = offered \o ws
              /\ sent' = sent \o Flatten(ws)
              /\ ops' = ops \o [i \in 1..Len(ws) |-> "write"]
    /\ target_addr' = NoAddr
    /\ pc' = "session"
    /\ UNCHANGED <<config, cmd, calls, call_start, inbox, proxy_sent,
                   proxy_done, nread, hdr, result,
                   read_start, sent_start, args>>

\* Socks5Stream::request(cmd, target_addr), up to the first suspension:
\* the target is stored, the packet is built and its prefix handed to
\* socket.write, or the encoding error is returned.
RequestWith(maxCalls, targets) ==
    /\ pc \in {"session", "returned"}
    /\ calls < maxCalls
    /\ \E c \in Socks5Command, ta \in targets :
          LET r == request_header(c, ta)
          IN  /\ cmd' = c
              /\ target_addr' = ta
              /\ IF r.kind = "Write"
                 THEN /\ offered' = Append(offered, r.slice)
                      /\ ops' = Append(ops, "write")
                      /\ pc' = "write"
                      /\ result' = NoResult
                 ELSE /\ UNCHANGED <<offered, ops>>
                      /\ pc' = IF r.kind = "Err" THEN "returned" ELSE "panicked"
                      /\ result' = IF r.kind = "Err" THEN Err(r.err)
                                   ELSE Panic(r.err.msg)
    /\ calls' = calls + 1
    /\ call_start' = Len(ops)
    /\ read_start' = nread
    /\ sent_start' = Len(sent)
    /\ hdr' = <<>>
    /\ UNCHANGED <<config, methods, sent, inbox, proxy_sent, proxy_done, nread,
                   args>>

Request == RequestWith(MaxCalls, Targets)

\* socket.write(&packet[..padding]) completes with Ok(n); the count is
\* dropped and flush is called.
WriteOk ==
    /\ pc = "write"
    /\ \E n \in AcceptCounts(Len(offered[Len(offered)])) :
          sent' = sent \o SubSeq(offered[Len(offered)], 1, n)
    /\ ops' = Append(ops, "flush")
    /\ pc' = "flush"
    /\ UNCHANGED <<config, methods, target_addr, cmd, calls, offered,
                   call_start, inbox, proxy_sent, proxy_done, nread, hdr, result,
                   read_start, sent_start, args>>

WriteErrRetried ==
    /\ pc = "write"
    /\ Len(ops) - call_start < 3
    /\ offered' = Append(offered, offered[Len(offered)])
    /\ ops' = Append(ops, "write")
    /\ UNCHANGED <<config, methods, target_addr, cmd, pc, calls, sent,
                   call_start, inbox, proxy_sent, proxy_done, nread, hdr, result,
                   read_start, sent_start, args>>

\* socket.write fails: .context("Can't write request header's packet.")?
WriteErr ==
    /\ pc = "write"
    /\ result' = Err(ErrOther("Can't write request header's packet."))
    /\ pc' = "returned"
    /\ UNCHANGED <<config, methods, target_addr, cmd, calls, offered, sent, ops,
                   call_start, inbox, proxy_sent, proxy_done, nread, hdr,
                   read_start, sent_start, args>>

\* socket.flush() completes; request_header returns Ok(()) and
\* read_request_reply starts its read_exact.
FlushOk ==
    /\ pc = "flush"
    /\ ops' = Append(ops, "read")
    /\ pc' = "read"
    /\ UNCHANGED <<config, methods, target_addr, cmd, calls, offered, sent,
                   call_start, inbox, proxy_sent, proxy_done, nread, hdr, result,
                   read_start, sent_start, args>>

\* socket.flush() fails: .context("Can't flush request header's packet")?
FlushErr ==
    /\ pc = "flush"
    /\ result' = Err(ErrOther("Can't flush request header's packet"))
    /\ pc' = "returned"
    /\ UNCHANGED <<config, methods, target_addr, cmd, calls, offered, sent, ops,
                   call_start, inbox, proxy_sent, proxy_done, nread, hdr,
                   read_start, sent_start, args>>

\* The proxy sends its bytes and closes its side.
ProxySend ==
    /\ ~proxy_done
    /\ \E s \in ProxyStreams :
          /\ inbox' = inbox \o s
          /\ proxy_sent' = s
    /\ proxy_done' = TRUE
    /\ UNCHANGED <<config, methods, target_addr, cmd, pc, calls, offered, sent,
                   ops, call_start, nread, hdr, result,
                   read_start, sent_start, args>>

\* read_exact completes (4 bytes, or end of stream before that) and
\* read_request_reply runs to its end.
ReadReply ==
    /\ pc = "read"
    /\ Len(inbox) >= 4 \/ proxy_done
    /\ LET rx == read_exact4(inbox)
           res == read_request_reply(inbox)
       IN  /\ hdr' = rx.bytes
           /\ nread' = nread + Len(rx.bytes)
           /\ inbox' = SubSeq(inbox, Len(rx.bytes) + 1, Len(inbox))
           /\ result' = res
           /\ pc' = IF res.kind = "Panic" THEN "panicked" ELSE "returned"
    /\ UNCHANGED <<config, methods, target_addr, cmd, calls, offered, sent, ops,
                   call_start, proxy_sent, proxy_done,
                   read_start, sent_start, args>>

\* read_exact fails with an I/O error: .context("Received malformed reply")?
ReadErr ==
    /\ pc = "read"
    /\ result' = Err(ErrOther("Received malformed reply"))
    /\ pc' = "returned"
    /\ UNCHANGED <<config, methods, target_addr, cmd, calls, offered, sent, ops,
                   call_start, inbox, proxy_sent, proxy_done, nread, hdr,
                   read_start, sent_start, args>>

Next ==
    \/ SetSkipAuth
    \/ UseStream
    \/ Request
    \/ WriteOk
    \/ WriteErr
    \/ FlushOk
    \/ FlushErr
    \/ ProxySend
    \/ ReadReply
    \/ ReadErr

Spec == Init /\ [][Next]_vars

(***************************************************************************)
(* Socks5Stream::connect / connect_raw: resolve the proxy address, dial,   *)
(* then use_stream and request in one go.                                  *)
(***************************************************************************)
\* Config::set_connect_timeout
SetConnectTimeout ==
    /\ pc = "config"
    /\ \E n \in Timeouts : config' = [config EXCEPT !.connect_timeout = n]
    /\ UNCHANGED <<methods, target_addr, cmd, pc, calls, offered, sent, ops,
                   call_start, inbox, proxy_sent, proxy_done, nread, hdr, result,
                   read_start, sent_start, args>>

\* connect_raw up to the await of tcp_connect (client.rs 92-96)
ConnectRaw ==
    /\ pc = "config"
    /\ \E c \in Socks5Command, a \in ConnectArgs, r \in ResolveOutcomes :
          /\ cmd' = c
          /\ args' = IF r = "addr" THEN [a EXCEPT !.dial = "Pending"] ELSE a
          /\ pc' = IF r = "addr" THEN "dial" ELSE "returned"
          /\ result' = CASE r = "addr" -> NoResult
                         [] r = "io" -> Err(ErrIo("to_socket_addrs"))
                         [] r = "empty" -> Err(ErrOther("unreachable"))
    /\ UNCHANGED <<config, methods, target_addr, calls, offered, sent, ops,
                   call_start, inbox, proxy_sent, proxy_done, nread, hdr,
                   read_start, sent_start>>

\* tcp_connect completes.  On an error connect_raw returns it; on success
\* it goes on (client.rs 97-106) with peer_addr, to_target_addr, use_stream
\* and request, up to the write of the request frame.
DialDone ==
    /\ pc = "dial"
    /\ \E o \in DialOutcomes, peer_ok \in BOOLEAN :
          LET d == tcp_connect(o)
              t == to_target_addr(args)
              ms == candidate_methods(args.auth)
              ws == handshake_writes(config.skip_auth, ms)
              r == request_header(cmd, t.addr)
              stop(res) ==
                  /\ args' = [args EXCEPT !.dial = o]
                  /\ result' = res
                  /\ pc' = IF res.kind = "Panic" THEN "panicked" ELSE "returned"
                  /\ UNCHANGED <<methods, target_addr, calls, offered, sent, ops,
                                 call_start, read_start, sent_start>>
          IN  IF d.kind # "Ok" THEN stop(d)
              ELSE IF ~peer_ok THEN stop(Err(ErrIo("peer_addr")))
              ELSE IF t.kind # "Ok" THEN stop(t)
              ELSE /\ args' = [args EXCEPT !.dial = o]
                   /\ methods' = ms
                   /\ sent' = sent \o Flatten(ws)
                   /\ target_addr' = t.addr
                   /\ calls' = calls + 1
                   /\ call_start' = Len(ops) + Len(ws)
                   /\ read_start' = nread
                   /\ sent_start' = Len(sent) + Len(Flatten(ws))
                   /\ IF r.kind = "Write"
                      THEN /\ offered' = (offered \o ws) \o <<r.slice>>
                           /\ ops' = (ops \o [i \in 1..Len(ws) |-> "write"]) \o <<"write">>
                           /\ pc' = "write"
                           /\ result' = NoResult
                      ELSE /\ offered' = offered \o ws
                           /\ ops' = ops \o [i \in 1..Len(ws) |-> "write"]
                           /\ pc' = IF r.kind = "Err" THEN "returned" ELSE "panicked"
                           /\ result' = IF r.kind = "Err" THEN Err(r.err)
                                        ELSE Panic(r.err.msg)
    /\ UNCHANGED <<config, cmd, inbox, proxy_sent, proxy_done, nread, hdr>>

NextConnect ==
    \/ SetSkipAuth
    \/ SetConnectTimeout
    \/ ConnectRaw
    \/ DialDone
    \/ WriteOk
    \/ WriteErr
    \/ FlushOk
    \/ FlushErr
    \/ ProxySend
    \/ ReadReply
    \/ ReadErr

SpecConnect == Init /\ [][NextConnect]_vars

\* The task is resumed whenever the I/O it awaits has completed: a write or
\* a flush on the local socket, a read once bytes or the end of stream are
\* there.  Nothing makes the dial complete or the proxy send.
SpecConnectFair ==
    /\ SpecConnect
    /\ WF_vars(WriteOk \/ WriteErr)
    /\ WF_vars(FlushOk \/ FlushErr)
    /\ WF_vars(ReadReply)

(***************************************************************************)
(* request_header on its own.  It reads self.target_addr, which is None on *)
(* a fresh session and Some(target) once a request() has stored one;       *)
(* request() itself never calls it with None.  HeaderCall is a call of     *)
(* request_header(cmd) on a session whose field holds either.              *)
(***************************************************************************)
HeaderCall ==
    /\ pc = "session"
    /\ \E c \in Socks5Command, ta \in {NoAddr} \cup Targets :
          LET r == request_header(c, ta)
          IN  /\ cmd' = c
              /\ target_addr' = ta
              /\ IF r.kind = "Write"
                 THEN /\ offered' = Append(offered, r.slice)
                      /\ ops' = Append(ops, "write")
                      /\ pc' = "write"
                      /\ result' = NoResult
                 ELSE /\ UNCHANGED <<offered, ops>>
                      /\ pc' = IF r.kind = "Err" THEN "returned" ELSE "panicked"
                      /\ result' = IF r.kind = "Err" THEN Err(r.err)
                                   ELSE Panic(r.err.msg)
    /\ call_start' = Len(ops)
    /\ read_start' = nread
    /\ sent_start' = Len(sent)
    /\ UNCHANGED <<config, methods, calls, sent, inbox, proxy_sent, proxy_done,
                   nread, hdr, args>>

\* socket.flush() completes and request_header returns Ok(())
HeaderFlushOk ==
    /\ pc = "flush"
    /\ result' = Ok(NoAddr)
    /\ pc' = "returned"
    /\ UNCHANGED <<config, methods, target_addr, cmd, calls, offered, sent, ops,
                   call_start, inbox, proxy_sent, proxy_done, nread, hdr,
                   read_start, sent_start, args>>

NextHeader ==
    \/ SetSkipAuth
    \/ UseStream
    \/ HeaderCall
    \/ WriteOk
    \/ WriteErr
    \/ HeaderFlushOk
    \/ FlushErr

SpecHeader == Init /\ [][NextHeader]_vars

(***************************************************************************)
(* A session on which the caller calls request() again after a return:     *)
(* request takes &mut self and is public, so nothing prevents it.  The     *)
(* same actions with fewer targets and room for a second call.             *)
(***************************************************************************)
MaxSessionCalls == 2

SessionTargets ==
    {IpV4(<<93, 184, 216, 34>>, 443), Domain(PerduCom, 80),
     Domain(Rep(97, 256), 443)}

RequestAgain == RequestWith(MaxSessionCalls, SessionTargets)

NextSession ==
    \/ SetSkipAuth
    \/ UseStream
    \/ RequestAgain
    \/ WriteOk
    \/ WriteErr
    \/ FlushOk
    \/ FlushErr
    \/ ProxySend
    \/ ReadReply
    \/ ReadErr

SpecSession == Init /\ [][NextSession]_vars

TypeOK ==
    /\ pc \in {"config", "dial", "session", "write", "flush", "read", "returned", "panicked"}
    /\ calls \in Nat
    /\ nread <= Len(proxy_sent)

(***************************************************************************)
(* Vocabulary of the properties.                                           *)
(***************************************************************************)
Ended == pc \in {"returned", "panicked"}

\* the channel operations of the request() in progress (or last made)
CallOps == SubSeq(ops, call_start + 1, Len(ops))

LastSlice == offered[Len(offered)]

\* a whole 4-byte reply header was read, with VERSION 0x05
ReplyRead == Ended /\ Len(hdr) = 4

\* the SOCKS5 reply-code table of the specification
ReplyTable(code) ==
    CASE code = 1 -> "GeneralFailure"
      [] code = 2 -> "ConnectionNotAllowed"
      [] code = 3 -> "NetworkUnreachable"
      [] code = 4 -> "HostUnreachable"
      [] code = 5 -> "ConnectionRefused"
      [] code = 6 -> "TtlExpired"
      [] code = 7 -> "CommandNotSupported"
      [] code = 8 -> "AddressTypeNotSupported"

KnownReplyVariants ==
    {"Succeeded", "ConnectionTimeout"} \cup {ReplyTable(c) : c \in 1..8}

\* the bytes of the proxy's stream that follow the header read by this call
ReplyBody == SubSeq(proxy_sent, read_start + 5, Len(proxy_sent))

(***************************************************************************)
(* C1: a reply frame with VERSION 0x05 and a REP code in 0x01..0x08 makes  *)
(* request() return the error carrying the ReplyError variant the table    *)
(* assigns to that code (REP 0x05 gives ConnectionRefused).                *)
(***************************************************************************)
C1_ReplyCodeGivesTableVariant ==
    (ReplyRead /\ hdr[1] = 5 /\ hdr[2] \in 1..8)
        => /\ pc = "returned"
           /\ result = Err(ErrReply(ReplyTable(hdr[2])))

(***************************************************************************)
(* C2: a reply [0x05, 0x00, RSV, 0x01] followed by 4 address octets and a  *)
(* big-endian port makes request() return Ok with the bound address        *)
(* decoded from those 6 bytes.                                             *)
(***************************************************************************)
C2_SuccessGivesBoundAddr ==
    (ReplyRead /\ hdr[1] = 5 /\ hdr[2] = 0 /\ hdr[4] = 1 /\ Len(ReplyBody) >= 6)
        => /\ pc = "returned"
           /\ result = Ok(IpV4(SubSeq(ReplyBody, 1, 4),
                               ReplyBody[5] * 256 + ReplyBody[6]))

(***************************************************************************)
(* C3: no run of request() ends in a panic: every run that ends returns a  *)
(* typed result.                                                           *)
(***************************************************************************)
C3_NeverPanics ==
    /\ pc # "panicked"
    /\ result.kind # "Panic"

(***************************************************************************)
(* C4: with skip_auth false, before a request frame is handed to the       *)
(* channel the client has written [0x05, NMETHODS, METHOD codes...] (None  *)
(* first) as its first write and has read the proxy's 2-byte answer.       *)
(***************************************************************************)
C4_NegotiationBeforeRequest ==
    (~config.skip_auth /\ calls > 0 /\ CallOps # <<>>)
        => /\ Len(offered) >= 2
           /\ offered[1] = negotiation_frame(methods)
           /\ offered[1][3] = 0
           /\ call_start >= 2
           /\ read_start >= 2

(***************************************************************************)
(* C5: with skip_auth true nothing is written or read before the request   *)
(* frame: a session that has made no request has exchanged nothing, and    *)
(* the first write ever made is the request frame 0x05, CMD, ... of the    *)
(* request in progress, made before any read.                              *)
(***************************************************************************)
C5_SkipAuthExchangesNothing ==
    config.skip_auth
        => /\ calls = 0 => (offered = <<>> /\ sent = <<>> /\ ops = <<>> /\ nread = 0)
           /\ offered # <<>> =>
                 /\ ops[1] = "write"
                 /\ offered[1][1] = SOCKS5_VERSION
                 /\ offered[1][2] \in {as_u8(c) : c \in Socks5Command}
           /\ (pc = "write" /\ Len(offered) = 1) =>
                 /\ offered[1] = request_header(cmd, target_addr).slice
                 /\ offered[1][2] = as_u8(cmd)
                 /\ sent = <<>>
                 /\ nread = 0
           /\ sent # <<>> => sent[1] = SOCKS5_VERSION

C5_Witness ==
    /\ config.skip_auth
    /\ pc = "read"
    /\ Len(offered) = 1
    /\ sent = offered[1]
    /\ nread = 0

(***************************************************************************)
(* C6: with skip_auth false, once the proxy's method answer (its first two *)
(* bytes) has a VERSION other than 0x05, or a METHOD that is 0xFF or not   *)
(* offered, no step hands a request frame to the channel and the session   *)
(* does not succeed.                                                       *)
(***************************************************************************)
BadMethodAnswer ==
    /\ Len(proxy_sent) >= 2
    /\ \/ proxy_sent[1] # SOCKS5_VERSION
       \/ proxy_sent[2] \notin {method_code(methods[i]) : i \in 1..Len(methods)}

C6_BadAnswerStopsSession ==
    [][(~config.skip_auth /\ BadMethodAnswer)
          => /\ \/ offered' = offered
                \/ offered' = Append(offered, negotiation_frame(methods'))
             /\ result'.kind # "Ok"]_vars

(***************************************************************************)
(* C7: a reply frame with VERSION 0x05 and a REP code outside 0x00..0x08   *)
(* makes request() return an error that is none of the ReplyError          *)
(* variants; it is never Ok.                                               *)
(***************************************************************************)
C7_UnknownReplyCodeIsError ==
    (ReplyRead /\ hdr[1] = 5 /\ hdr[2] \notin 0..8)
        => /\ pc = "returned"
           /\ result.kind = "Err"
           /\ ~(result.err.variant = "ReplyError"
                /\ result.err.msg \in KnownReplyVariants)

(***************************************************************************)
(* C8: a reply header whose VERSION is not 0x05 makes request() return     *)
(* UnsupportedSocksVersion(version) whatever REP and ATYP are, and exactly *)
(* the 4 header bytes have been read by that request.                      *)
(***************************************************************************)
C8_VersionCheckedFirst ==
    (ReplyRead /\ hdr[1] # 5)
        => /\ pc = "returned"
           /\ result = Err(ErrUnsupportedSocksVersion(hdr[1]))
           /\ nread = read_start + 4
           /\ hdr = SubSeq(proxy_sent, read_start + 1, read_start + 4)

C8_Witness ==
    /\ pc = "returned"
    /\ Len(hdr) = 4
    /\ hdr[1] = 4
    /\ hdr[2] = 5
    /\ result.err.arg = 4

(***************************************************************************)
(* C9: a request for a domain target longer than 255 bytes returns         *)
(* ExceededMaxDomainLen(actual length) at once: that request performs no   *)
(* channel operation, so nothing is written and nothing is read.           *)
(***************************************************************************)
C9_LongDomainRejected ==
    (target_addr.type = "Domain" /\ Len(target_addr.name) > 255)
        => /\ pc = "returned"
           /\ result = Err(ErrExceededMaxDomainLen(Len(target_addr.name)))
           /\ CallOps = <<>>
           /\ nread = read_start
           /\ calls = 1 => (offered = <<>> /\ sent = <<>> /\ nread = 0)

C9_Witness ==
    /\ pc = "returned"
    /\ target_addr.type = "Domain"
    /\ Len(target_addr.name) = 300
    /\ result.err.arg = 300

(***************************************************************************)
(* C10: for an IPv4 target the slice handed to the channel is exactly the  *)
(* 10 bytes 0x05, CMD, 0x00, 0x01, the 4 octets, port high, port low; for  *)
(* Connect to 93.184.216.34:443 it is 05 01 00 01 5D B8 D8 22 01 BB.       *)
(***************************************************************************)
C10_Ipv4FrameExact ==
    target_addr.type = "V4"
        => /\ CallOps # <<>>
           /\ CallOps[1] = "write"
           /\ Len(LastSlice) = 10
           /\ LastSlice = <<5, as_u8(cmd), 0, 1>> \o target_addr.ip
                          \o <<target_addr.port \div 256, target_addr.port % 256>>
           /\ (cmd = "TCPConnect" /\ target_addr = IpV4(<<93, 184, 216, 34>>, 443))
                 => LastSlice = <<5, 1, 0, 1, 93, 184, 216, 34, 1, 187>>

C10_Witness ==
    /\ pc = "flush"
    /\ cmd = "TCPConnect"
    /\ target_addr = IpV4(<<93, 184, 216, 34>>, 443)
    /\ sent = LastSlice

(***************************************************************************)
(* C11: for a domain target of length n <= 255 the slice handed to the     *)
(* channel is exactly the n + 7 bytes 0x05, CMD, 0x00, 0x03, n, the name,  *)
(* port high, port low: the length byte equals the number of name bytes.   *)
(***************************************************************************)
C11_DomainFrameExact ==
    (target_addr.type = "Domain" /\ Len(target_addr.name) <= 255)
        => /\ CallOps # <<>>
           /\ CallOps[1] = "write"
           /\ Len(LastSlice) = Len(target_addr.name) + 7
           /\ LastSlice = <<5, as_u8(cmd), 0, 3, Len(target_addr.name)>>
                          \o target_addr.name
                          \o <<target_addr.port \div 256, target_addr.port % 256>>
           /\ LastSlice[5] = Len(LastSlice) - 7

C11_Witness ==
    /\ pc = "flush"
    /\ target_addr.type = "Domain"
    /\ Len(target_addr.name) = 255
    /\ Len(LastSlice) = 262
    /\ LastSlice[5] = 255
    /\ sent = LastSlice

(***************************************************************************)
(* C12: a session issues at most one request: once target_addr is present  *)
(* no step overwrites it, and at most one request frame is ever handed to  *)
(* the channel.                                                            *)
(***************************************************************************)
C12_AtMostOneRequest ==
    [][/\ target_addr.type # "None" => target_addr' = target_addr
       /\ Len(offered') <= 1]_vars

(***************************************************************************)
(* C13: when the reply carries, as its bound address, the very address     *)
(* field (ATYP 0x03, length byte, name, port) that the request encoding    *)
(* produced for a domain of at most 255 bytes, decoding gives back the     *)
(* identical TargetAddr::Domain(name, port).                               *)
(***************************************************************************)
C13_DomainRoundTrip ==
    (/\ ReplyRead
     /\ target_addr.type = "Domain"
     /\ Len(target_addr.name) <= 255
     /\ hdr[1] = 5 /\ hdr[2] = 0 /\ hdr[4] = LastSlice[4]
     /\ ReplyBody = SubSeq(LastSlice, 5, Len(LastSlice)))
        => /\ pc = "returned"
           /\ result = Ok(target_addr)

(***************************************************************************)
(* C14: tcp_connect maps a failed dial by its error kind: refused gives    *)
(* ReplyError::ConnectionRefused, aborted and reset give                   *)
(* ConnectionNotAllowed, not-connected gives NetworkUnreachable, any other *)
(* kind is returned as the I/O error itself and never as a ReplyError; a   *)
(* successful dial gives no dial error and connect_raw goes on.            *)
(***************************************************************************)
DialEnded == args.dial \notin {"None", "Pending"}

C14_DialErrorMapping ==
    DialEnded
        => /\ args.dial = "ConnectionRefused"
                 => result = Err(ErrReply("ConnectionRefused"))
           /\ args.dial \in {"ConnectionAborted", "ConnectionReset"}
                 => result = Err(ErrReply("ConnectionNotAllowed"))
           /\ args.dial = "NotConnected"
                 => result = Err(ErrReply("NetworkUnreachable"))
           /\ args.dial \notin {"Connected", "ConnectionRefused", "ConnectionAborted",
                                "ConnectionReset", "NotConnected"}
                 => /\ result = Err(ErrIo(args.dial))
                    /\ result.err.variant # "ReplyError"
           /\ args.dial # "Connected"
                 => (pc = "returned" /\ ops = <<>> /\ target_addr = NoAddr)
           /\ args.dial = "Connected"
                 => /\ result.err.variant # "ReplyError"
                    /\ result.err.variant = "Io" => result.err.msg = "peer_addr"

C14_Witness ==
    /\ pc = "returned"
    /\ args.dial = "ConnectionReset"
    /\ result = Err(ErrReply("ConnectionNotAllowed"))

(***************************************************************************)
(* C15: with Config.connect_timeout set, a dial that does not complete is  *)
(* ended by the timeout: connect_raw does not stay in the dial for ever.   *)
(***************************************************************************)
C15_DialTimesOut ==
    (pc = "dial" /\ config.connect_timeout # NoTimeout) ~> (pc # "dial")

(***************************************************************************)
(* C16: when request_header has returned Ok (the read of the reply has     *)
(* been started), the channel has accepted every byte of the frame that    *)
(* was handed to it, also when a write call accepts fewer bytes than       *)
(* offered.                                                                *)
(***************************************************************************)
SentByCall == SubSeq(sent, sent_start + 1, Len(sent))

C16_HeaderOkMeansAllSent ==
    Len(CallOps) = 3 => SentByCall = LastSlice

(***************************************************************************)
(* C17: within one request() the channel operations are write, flush,      *)
(* read of the reply header, in that order and each at most once; a        *)
(* failed encoding, write, flush or header read (a short read included)    *)
(* returns the error with none of the later operations performed.          *)
(***************************************************************************)
OpOrder == <<"write", "flush", "read">>

C17_OrderNoRetry ==
    calls > 0
        => /\ Len(CallOps) <= 3
           /\ \A i \in 1..Len(CallOps) : CallOps[i] = OpOrder[i]
           /\ pc = "write" => Len(CallOps) = 1
           /\ pc = "flush" => Len(CallOps) = 2
           /\ pc = "read" => Len(CallOps) = 3
           /\ Len(CallOps) < 3 => (nread = read_start /\ hdr = <<>>)
           /\ Len(CallOps) < 2 => SentByCall = <<>>
           /\ (pc = "returned" /\ result.kind = "Err") =>
                 /\ (\/ result.err.variant = "ExceededMaxDomainLen"
                     \/ result.err.msg = "unsupported ipv6"
                     \/ result.err.msg = "target addr should be present")
                       => CallOps = <<>>
                 /\ result.err.msg = "Can't write request header's packet."
                       => Len(CallOps) = 1
                 /\ result.err.msg = "Can't flush request header's packet"
                       => Len(CallOps) = 2
                 /\ result.err.msg = "Received malformed reply"
                       => (Len(CallOps) = 3 /\ Len(hdr) < 4
                           /\ nread = read_start + Len(hdr))

C17_Witness ==
    /\ pc = "returned"
    /\ CallOps = OpOrder
    /\ hdr = <<5, 0, 0>>
    /\ result = Err(ErrOther("Received malformed reply"))

(***************************************************************************)
(* C18: a request for an IPv6 target returns the "unsupported ipv6" error, *)
(* which is none of ExceededMaxDomainLen, UnsupportedSocksVersion and      *)
(* ReplyError, and that request performs no channel operation.             *)
(***************************************************************************)
C18_Ipv6Rejected ==
    target_addr.type = "V6"
        => /\ pc = "returned"
           /\ result = Err(ErrOther("unsupported ipv6"))
           /\ result.err.variant \notin
                 {"ExceededMaxDomainLen", "UnsupportedSocksVersion", "ReplyError"}
           /\ CallOps = <<>>
           /\ SentByCall = <<>>
           /\ nread = read_start

C18_Witness ==
    /\ pc = "returned"
    /\ target_addr.type = "V6"
    /\ cmd = "UDPAssociate"
    /\ result.err.msg = "unsupported ipv6"

(***************************************************************************)
(* C19: request encoding with no target address present: for UdpAssociate  *)
(* the frame handed to the channel is 05 03 00 01 00 00 00 00 00 00; for   *)
(* Connect and Bind it fails with "target addr should be present" and      *)
(* nothing is written.                                                     *)
(***************************************************************************)
HeaderCalled == pc \notin {"config", "session"}

C19_NoTargetEncoding ==
    (HeaderCalled /\ target_addr.type = "None")
        => /\ cmd = "UDPAssociate"
                 => /\ CallOps # <<>>
                    /\ CallOps[1] = "write"
                    /\ LastSlice = <<5, 3, 0, 1, 0, 0, 0, 0, 0, 0>>
           /\ cmd \in {"TCPConnect", "TCPBind"}
                 => /\ pc = "returned"
                    /\ result = Err(ErrOther("target addr should be present"))
                    /\ CallOps = <<>>
                    /\ offered = <<>>
                    /\ sent = <<>>

C19_Witness ==
    /\ pc = "returned"
    /\ target_addr.type = "None"
    /\ cmd = "UDPAssociate"
    /\ result.kind = "Ok"
    /\ sent = <<5, 3, 0, 1, 0, 0, 0, 0, 0, 0>>

(***************************************************************************)
(* C20: in request encoding no write into the packet buffer and no slice   *)
(* of it goes beyond its MAX_ADDR_LEN + 3 = 263 bytes (an index out of     *)
(* range would be a panic): every target that passes the checks gives a    *)
(* frame of at most 262 bytes, and a 255-byte domain gives exactly 262.    *)
(***************************************************************************)
PassesChecks ==
    \/ target_addr.type = "V4"
    \/ target_addr.type = "None" /\ cmd = "UDPAssociate"
    \/ target_addr.type = "Domain" /\ Len(target_addr.name) <= 255

C20_PacketWithinBuffer ==
    HeaderCalled
        => /\ pc # "panicked"
           /\ result.kind # "Panic"
           /\ Len(ZeroPacket.buf) = 263
           /\ PassesChecks
                 => /\ CallOps # <<>>
                    /\ Len(LastSlice) <= 262
                    /\ Len(LastSlice) < Len(ZeroPacket.buf)
           /\ (target_addr.type = "Domain" /\ Len(target_addr.name) = 255)
                 => Len(LastSlice) = 262

C20_Witness ==
    /\ pc = "returned"
    /\ result.kind = "Ok"
    /\ target_addr.type = "Domain"
    /\ Len(target_addr.name) = 255
    /\ Len(sent) = 262

====
